---- MODULE Spec2Model ----
(***************************************************************************)
(* A model of nilm.timeseries.TimeSeries (src/nilm/timeseries.py): the     *)
(* record array held by each series, the constructor, the powers setter,   *)
(* indicators/activations, __add__/__sub__, intersect and pad.             *)
(*                                                                         *)
(* A numpy array is a buffer on a heap; a TimeSeries object holds a        *)
(* reference to its buffer (self.array), so that views and copies are      *)
(* different things in the model as they are in numpy.  Power values are   *)
(* float32 in the code and small integers here (which float32 represents   *)
(* exactly).  Indices, and the activation intervals, are Python's          *)
(* (0-based); sequences are TLA+'s (1-based).                              *)
(***************************************************************************)
EXTENDS Integers, Sequences, FiniteSets, TLC

VARIABLES heap, ts, ret

vars == <<heap, ts, ret>>

(***************************************************************************)
(* Bounds of the model.                                                    *)
(***************************************************************************)
MaxTime == 2        \* session: timestamps of the data files are 0..MaxTime
MaxPower == 1       \* session: powers of the data files are 0..MaxPower
MaxRows == 2        \* session: a data file has 2..MaxRows rows
AlignMaxTime == 2   \* alignment runs: timestamps 0..AlignMaxTime
AlignMaxPower == 1  \* alignment runs: powers 0..AlignMaxPower
PadMaxTime == 5     \* pad runs: timestamps 0..PadMaxTime
PadMaxLen == 3      \* pad runs: at most PadMaxLen samples
PadMaxPower == 1    \* pad runs: powers 0..PadMaxPower
ActMaxLen == 9      \* activation runs: at most ActMaxLen samples
ActMaxPower == 1    \* activation runs: powers 0..ActMaxPower
SetMaxLen == 4      \* setter runs: at most SetMaxLen samples
SetMaxPower == 1    \* setter runs: powers 0..SetMaxPower

(***************************************************************************)
(* Arrays.                                                                 *)
(***************************************************************************)
Objects == {"T", "U", "R"}
BufIds == 1..Cardinality(Objects)

Sample(t, p) == [time |-> t, power |-> p]

\* A 1-d record array.
Array1(recs) == [nd |-> 1, recs |-> recs]

\* np.rec.array((0, 2), dtype=[('time', uint32), ('power', float32)]): numpy
\* reads the tuple as one value per field, not as a shape, and builds a 0-d
\* array holding the single record (time = 0, power = 2.0).
rec_array_0_2 == [nd |-> 0, recs |-> <<Sample(0, 2)>>]

times(a) == [i \in 1..Len(a.recs) |-> a.recs[i].time]
powers(a) == [i \in 1..Len(a.recs) |-> a.recs[i].power]

\* The order np.sort uses on the structured dtype: by time, then by power.
RecLeq(r, s) == r.time < s.time \/ (r.time = s.time /\ r.power <= s.power)

RECURSIVE InsertSorted(_, _)
InsertSorted(r, s) ==
    IF s = <<>> THEN <<r>>
    ELSE IF RecLeq(r, Head(s)) THEN <<r>> \o s
    ELSE <<Head(s)>> \o InsertSorted(r, Tail(s))

RECURSIVE SortRecs(_)
SortRecs(s) == IF s = <<>> THEN <<>> ELSE InsertSorted(Head(s), SortRecs(Tail(s)))

\* The constructor without its np.sort: the rows in file order.
np_sort_skipped(rows) == rows

np_sort(rows) == SortRecs(rows)

\* The path argument of the constructor: None, or a file, given by the rows
\* np.genfromtxt reads from it.
NoPath == [given |-> FALSE, rows |-> <<>>]
File(rows) == [given |-> TRUE, rows |-> rows]

\* TimeSeries.__init__: the array of the new series.
TimeSeriesArray(path) ==
    IF path.given THEN Array1(np_sort(path.rows)) ELSE rec_array_0_2

\* a[~mask]: the records the mask does not select.
RECURSIVE CompressInverted(_, _)
CompressInverted(s, mask) ==
    IF s = <<>> THEN <<>>
    ELSE (IF Head(mask) THEN <<>> ELSE <<Head(s)>>)
             \o CompressInverted(Tail(s), Tail(mask))

\* a[mask] for a boolean mask: a new array of the selected records.
RECURSIVE Compress(_, _)
Compress(s, mask) ==
    IF s = <<>> THEN <<>>
    ELSE (IF Head(mask) THEN <<Head(s)>> ELSE <<>>) \o Compress(Tail(s), Tail(mask))

\* np.in1d(ar1, ar2, assume_unique=True).  numpy computes it in one of two
\* ways: a loop over ar2 (mask |= (ar1 == a)), or a stable sort of the
\* concatenation in which an element is flagged when its successor in the
\* sorted order is equal to it.  They agree when both arrays are duplicate
\* free; which one runs depends on the numpy build and the array lengths.
in1d_loop(ar1, ar2) ==
    [i \in 1..Len(ar1) |-> \E j \in 1..Len(ar2) : ar2[j] = ar1[i]]

in1d_sort(ar1, ar2) ==
    LET ar == ar1 \o ar2
        n == Len(ar)
        \* position of ar[k] in order = ar.argsort(kind='mergesort')
        rank(k) == 1 + Cardinality({j \in 1..n : ar[j] < ar[k] \/ (ar[j] = ar[k] /\ j < k)})
        sar == [p \in 1..n |-> ar[CHOOSE k \in 1..n : rank(k) = p]]
        flag(p) == p < n /\ sar[p + 1] = sar[p]
    IN  [i \in 1..Len(ar1) |-> flag(rank(i))]

in1d(ar1, ar2) == {in1d_loop(ar1, ar2), in1d_sort(ar1, ar2)}

\* np.uint32 subtraction a - b.  It wraps to 2^32 - (b - a) when a < b; the
\* model's integers are 32-bit signed, so the wrapped value is represented
\* by the largest of them (it exceeds every max_pad and width of the model).
WrappedUint == 2147483647
uint32_sub(a, b) == IF a >= b THEN a - b ELSE WrappedUint

(***************************************************************************)
(* indicators and activations.                                             *)
(***************************************************************************)
\* indicators with >= for >.
indicators_geq(a, threshold) ==
    [i \in 1..Len(a.recs) |-> a.recs[i].power >= threshold]

\* TimeSeries.indicators: power > threshold, sample by sample.
indicators(a, threshold) == [i \in 1..Len(a.recs) |-> a.recs[i].power > threshold]

\* The loop of TimeSeries.activations, from Python index i on, and the
\* append after it.
RECURSIVE ActivationsLoop(_, _, _, _, _)
ActivationsLoop(ind, i, in_interval, start, acts) ==
    IF i >= Len(ind)
    THEN IF in_interval THEN Append(acts, <<start, Len(ind)>>) ELSE acts
    ELSE LET closes == ~ind[i + 1] /\ in_interval
             in1 == IF closes THEN FALSE ELSE in_interval
             acts1 == IF closes THEN Append(acts, <<start, i>>) ELSE acts
             opens == ind[i + 1] /\ ~in1
         IN  ActivationsLoop(ind, i + 1, IF opens THEN TRUE ELSE in1,
                             IF opens THEN i ELSE start, acts1)

\* TimeSeries.activations: the outcome of the call.  ind[0] is read before
\* the loop, whatever the length of ind.
activations(a, threshold) ==
    LET ind == indicators(a, threshold)
    IN  IF Len(ind) = 0
        THEN [status |-> "IndexError", value |-> <<>>]
        ELSE [status |-> "ok",
              value |-> ActivationsLoop(ind, 0, ind[1], 0, <<>>)]

(***************************************************************************)
(* The powers setter, __add__, __sub__, intersect and pad, as functions    *)
(* from the arrays involved to the outcome of the call.                    *)
(***************************************************************************)
\* self.array['power'] = power_array.copy(): numpy broadcasts the right-hand
\* side to the shape of the field, so an array of the same length or of
\* length 1 is stored, and any other length raises ValueError before
\* anything is written.
SetPowersArray(a, power_array) ==
    LET n == Len(a.recs)
        m == Len(power_array)
    IN  IF m = n
        THEN [status |-> "ok",
              array |-> Array1([i \in 1..n |-> Sample(a.recs[i].time, power_array[i])])]
        ELSE IF m = 1
        THEN [status |-> "ok",
              array |-> Array1([i \in 1..n |-> Sample(a.recs[i].time, power_array[1])])]
        ELSE [status |-> "ValueError", array |-> a]

\* The in-place operation always adding, whatever the sign.
InPlaceAddUnsigned(recs, b, sign) ==
    IF Len(b) = Len(recs)
    THEN [status |-> "ok",
          recs |-> [i \in 1..Len(recs) |-> Sample(recs[i].time, recs[i].power + b[i])]]
    ELSE [status |-> "ValueError", recs |-> recs]

\* ts_sum.powers += b (sign = 1) or ts_diff.powers -= b (sign = -1), where
\* b = ts.powers[indices2]: in place, b broadcast to the shape of the left
\* operand.
InPlaceAdd(recs, b, sign) ==
    LET n == Len(recs)
        m == Len(b)
    IN  IF m = n
        THEN [status |-> "ok",
              recs |-> [i \in 1..n |-> Sample(recs[i].time, recs[i].power + sign * b[i])]]
        ELSE IF m = 1
        THEN [status |-> "ok",
              recs |-> [i \in 1..n |-> Sample(recs[i].time, recs[i].power + sign * b[1])]]
        ELSE [status |-> "ValueError", recs |-> recs]

\* The inner loop running to hi inclusive.
PadFillInclusive(out, t, hi, p) ==
    out \o [k \in 1..(hi - t + 1) |-> Sample(t + k - 1, p)]

\* The inner loop of pad: padded_array[cnt] = (t, p) for t in xrange(t, hi).
RECURSIVE PadFill(_, _, _, _)
PadFill(out, t, hi, p) ==
    IF t >= hi THEN out ELSE PadFill(Append(out, Sample(t, p)), t + 1, hi, p)

\* The outer loop of pad, from Python index i on; out is padded_array[0:cnt].
RECURSIVE PadLoop(_, _, _, _)
PadLoop(recs, max_pad, i, out) ==
    IF i >= Len(recs) - 1 THEN out
    ELSE LET cur == recs[i + 1]
             nxt == recs[i + 2]
             out1 == Append(out, Sample(cur.time, cur.power))
         IN  IF uint32_sub(nxt.time, cur.time) > max_pad
             THEN PadLoop(recs, max_pad, i + 1, out1)
             ELSE PadLoop(recs, max_pad, i + 1,
                          PadFill(out1, cur.time + 1, nxt.time, cur.power))

\* TimeSeries.pad: the outcome of the call.  times[-1] raises IndexError on an
\* empty array; padded_array holds width records, and a write at an index
\* >= width raises IndexError; self.array is assigned last, so a call that
\* raises leaves the series as it was.
PadArray(a, max_pad) ==
    LET n == Len(a.recs)
    IN  IF n = 0 THEN [status |-> "IndexError", array |-> a]
        ELSE LET width == uint32_sub(a.recs[n].time, a.recs[1].time) + 1
                 written == Append(PadLoop(a.recs, max_pad, 0, <<>>),
                                   Sample(a.recs[n].time, a.recs[n].power))
             IN  IF Len(written) > width
                 THEN [status |-> "IndexError", array |-> a]
                 ELSE [status |-> "ok", array |-> Array1(written)]

(***************************************************************************)
(* State.  heap[b] is the record array in buffer b; ts[o] is the buffer    *)
(* that object o's attribute `array` refers to; ret is the last call: what *)
(* was called, on which objects and with which arguments (num: the number  *)
(* of rows of the file for the constructor, the number of samples the      *)
(* receiver had for intersect), and its outcome (status "ok" or the        *)
(* exception raised, and the value returned).                              *)
(***************************************************************************)
Contents(o) == heap[ts[o]]
After(o) == heap'[ts'[o]]

Ret(op, obj, other, dst, num, seq, status, value) ==
    [op |-> op, obj |-> obj, other |-> other, dst |-> dst, num |-> num,
     seq |-> seq, status |-> status, value |-> value]

\* The buffer of an array that is newly allocated and then bound to o.array:
\* storage no other object refers to.
NewBuf(o) ==
    IF \A x \in Objects \ {o} : ts[x] # ts[o] THEN ts[o]
    ELSE CHOOSE b \in BufIds : \A x \in Objects : ts[x] # b

\* src.array[indices] as a view: the storage of src.array itself.
MaskedArrayView(src, dst) == ts[src]

\* The buffer of src.array[indices], which dst.array is then bound to:
\* indexing with a boolean mask copies the selected records into a new array.
MaskedArrayBuf(src, dst) == NewBuf(dst)

\* The calls below other than the constructor are made on series that hold
\* a 1-d array (nd = 1): series loaded from a file, and what the calls make
\* of them.  numpy's handling of the 0-d array of a series constructed
\* without a path (in in1d, boolean indexing and apply_along_axis) differs
\* between releases and is left out.

\* o = TimeSeries(path=path)
Construct(o, path) ==
    LET b == NewBuf(o)
    IN  /\ heap' = [heap EXCEPT ![b] = TimeSeriesArray(path)]
        /\ ts' = [ts EXCEPT ![o] = b]
        /\ ret' = Ret("init", o, o, o, Len(path.rows), <<>>, "ok", <<>>)

\* o.powers = power_array
SetPowers(o, power_array) ==
    LET r == SetPowersArray(Contents(o), power_array)
    IN  /\ Contents(o).nd = 1
        /\ heap' = [heap EXCEPT ![ts[o]] = r.array]
        /\ UNCHANGED ts
        /\ ret' = Ret("set", o, o, o, 0, power_array, r.status, <<>>)

\* o.activations(threshold)
Activations(o, threshold) ==
    LET r == activations(Contents(o), threshold)
    IN  /\ Contents(o).nd = 1
        /\ UNCHANGED <<heap, ts>>
        /\ ret' = Ret("activations", o, o, o, threshold, <<>>, r.status, r.value)

\* o.intersect(other)
Intersect(o, other) ==
    /\ Contents(o).nd = 1
    /\ Contents(other).nd = 1
    /\ \E indices \in in1d(times(Contents(o)), times(Contents(other))) :
        LET b == MaskedArrayBuf(o, o)
        IN  /\ heap' = [heap EXCEPT ![b] = Array1(Compress(Contents(o).recs, indices))]
            /\ ts' = [ts EXCEPT ![o] = b]
    /\ ret' = Ret("intersect", o, other, o, Len(Contents(o).recs), <<>>, "ok", <<>>)

\* o.pad(max_pad)
Pad(o, max_pad) ==
    LET r == PadArray(Contents(o), max_pad)
        b == NewBuf(o)
    IN  /\ Contents(o).nd = 1
        /\ IF r.status = "ok"
           THEN /\ heap' = [heap EXCEPT ![b] = r.array]
                /\ ts' = [ts EXCEPT ![o] = b]
           ELSE UNCHANGED <<heap, ts>>
        /\ ret' = Ret("pad", o, o, o, max_pad, <<>>, r.status, <<>>)

\* dst = x + y (sign = 1, op = "add") or dst = x - y (sign = -1, op = "sub")
Combine(op, sign, x, y, dst) ==
    /\ Contents(x).nd = 1
    /\ Contents(y).nd = 1
    /\ \E indices1 \in in1d(times(Contents(x)), times(Contents(y))) :
       \E indices2 \in in1d(times(Contents(y)), times(Contents(x))) :
        LET b == MaskedArrayBuf(x, dst)
            r == InPlaceAdd(Compress(Contents(x).recs, indices1),
                            Compress(powers(Contents(y)), indices2), sign)
        IN  /\ IF r.status = "ok"
               THEN /\ heap' = [heap EXCEPT ![b] = Array1(r.recs)]
                    /\ ts' = [ts EXCEPT ![dst] = b]
               ELSE UNCHANGED <<heap, ts>>
            /\ ret' = Ret(op, x, y, dst, 0, <<>>, r.status, <<>>)

\* __sub__ adding.
SubAdds(x, y, dst) == Combine("sub", 1, x, y, dst)

Add(x, y, dst) == Combine("add", 1, x, y, dst)
Sub(x, y, dst) == Combine("sub", -1, x, y, dst)

(***************************************************************************)
(* Inputs.                                                                 *)
(***************************************************************************)
SeqsOf(S, lo, hi) == UNION {[1..n -> S] : n \in lo..hi}

Rows(maxTime, maxPower) == {Sample(t, p) : t \in 0..maxTime, p \in 0..maxPower}

PowersAfterWithin(o, lo, hi) ==
    \A i \in 1..Len(After(o).recs) : After(o).recs[i].power \in lo..hi

(***************************************************************************)
(* The session: two series, T and U, each constructed empty, loaded from a *)
(* file, and then operated on in any order; sums and differences are bound *)
(* to T or U again.                                                        *)
(***************************************************************************)
Session == {"T", "U"}

Init ==
    /\ ts = [o \in Objects |-> IF o = "T" THEN 1 ELSE IF o = "U" THEN 2 ELSE 3]
    /\ heap = [b \in BufIds |-> TimeSeriesArray(NoPath)]
    /\ ret = Ret("init", "T", "T", "T", 0, <<>>, "ok", <<>>)

SessionEmpty == \E o \in Session : Construct(o, NoPath)

\* A variable that holds an empty series is bound to a series loaded from a
\* file (every other state of the variable is reached through SessionEmpty).
\* A file has at least two rows: np.genfromtxt makes a 0-d array of a file
\* of one row.
SessionLoad ==
    \E o \in Session : \E rows \in SeqsOf(Rows(MaxTime, MaxPower), 2, MaxRows) :
        /\ Contents(o).nd = 0
        /\ Construct(o, File(rows))

\* The setter is called with one power per sample here (the other lengths
\* are the subject of SpecSet).
SessionSetPowers ==
    \E o \in Session : \E p \in SeqsOf(0..MaxPower, 0, MaxTime + 1) :
        /\ Len(p) = Len(Contents(o).recs)
        /\ SetPowers(o, p)

SessionIntersect == \E o \in Session : \E other \in Session : Intersect(o, other)

SessionPad == \E o \in Session : \E max_pad \in 0..MaxTime : Pad(o, max_pad)

\* x = x + y and x = x - y; the powers stay within 0..MaxPower.
SessionAdd ==
    \E x \in Session : \E y \in Session :
        Add(x, y, x) /\ PowersAfterWithin(x, 0, MaxPower)

SessionSub ==
    \E x \in Session : \E y \in Session :
        Sub(x, y, x) /\ PowersAfterWithin(x, 0, MaxPower)

Next ==
    \/ SessionEmpty
    \/ SessionLoad
    \/ SessionSetPowers
    \/ SessionIntersect
    \/ SessionPad
    \/ SessionAdd
    \/ SessionSub

Spec == Init /\ [][Next]_vars

(***************************************************************************)
(* Runs of single operations on given series.  T (and U) start as series   *)
(* the program can hold: their times are non-decreasing, as they are after *)
(* loading.  R is the variable a sum or difference is bound to.            *)
(***************************************************************************)
\* The series whose times are the elements of S, each once, in ascending
\* order, with the powers f gives them.
SeriesOf(S, f) ==
    Array1([i \in 1..Cardinality(S) |->
               LET t == CHOOSE u \in S : Cardinality({v \in S : v < u}) = i - 1
               IN  Sample(t, f[t])])

UniqueSeries(maxTime, maxPower) ==
    {SeriesOf(S, f) : S \in SUBSET (0..maxTime), f \in [0..maxTime -> 0..maxPower]}

\* The series of at most maxLen samples whose times are non-decreasing.
SortedSeries(maxLen, maxTime, maxPower) ==
    {Array1(r) : r \in {q \in SeqsOf(Rows(maxTime, maxPower), 0, maxLen) :
                            \A i \in 1..(Len(q) - 1) : q[i].time <= q[i + 1].time}}

\* The series of minLen to maxLen samples taken at times 0, 1, 2, ...
IndexedSeries(minLen, maxLen, maxPower) ==
    {Array1([i \in 1..Len(p) |-> Sample(i - 1, p[i])]) :
        p \in SeqsOf(0..maxPower, minLen, maxLen)}

InitWith(T, U) ==
    /\ ts = [o \in Objects |-> IF o = "T" THEN 1 ELSE IF o = "U" THEN 2 ELSE 3]
    /\ heap = [b \in BufIds |->
                 IF b = 1 THEN T ELSE IF b = 2 THEN U ELSE TimeSeriesArray(NoPath)]
    /\ ret = Ret("init", "R", "R", "R", 0, <<>>, "ok", <<>>)

Fresh == ret.op = "init"

\* Alignment: T.intersect(U) and then T.activations(threshold), as
\* evaluate.py does with the device series and the aggregate; R = T + U,
\* R = T - U, then R = R - U after the sum, and the returned series R mutated.
InitAlign ==
    \E T \in UniqueSeries(AlignMaxTime, AlignMaxPower) :
    \E U \in UniqueSeries(AlignMaxTime, AlignMaxPower) : InitWith(T, U)

AlignIntersect == Fresh /\ Intersect("T", "U")
AlignActivations ==
    /\ ret.op = "intersect" /\ ret.obj = "T"
    /\ Activations("T", 0)
AlignAdd == Fresh /\ Add("T", "U", "R")
AlignSub == Fresh /\ Sub("T", "U", "R")
AlignSubBack == ret.op = "add" /\ Sub("R", "U", "R")

Returned == ret.op \in {"add", "sub"} /\ ret.obj = "T" /\ ret.status = "ok"

AlignSetReturned ==
    Returned /\ SetPowers("R", [i \in 1..Len(Contents("R").recs) |-> 0])
AlignPadReturned == Returned /\ Pad("R", AlignMaxTime)
AlignIntersectReturned == Returned /\ \E other \in {"T", "U"} : Intersect("R", other)

NextAlign ==
    \/ AlignIntersect
    \/ AlignActivations
    \/ AlignAdd
    \/ AlignSub
    \/ AlignSubBack
    \/ AlignSetReturned
    \/ AlignPadReturned
    \/ AlignIntersectReturned

SpecAlign == InitAlign /\ [][NextAlign]_vars

\* Padding: T.pad(max_pad).
InitPad ==
    \E T \in SortedSeries(PadMaxLen, PadMaxTime, PadMaxPower) :
        InitWith(T, TimeSeriesArray(NoPath))

PadOnce == Fresh /\ \E max_pad \in 0..PadMaxTime : Pad("T", max_pad)

NextPad == PadOnce

SpecPad == InitPad /\ [][NextPad]_vars

\* Activations: T.activations(threshold).
InitAct ==
    \E T \in IndexedSeries(0, ActMaxLen, ActMaxPower) :
        InitWith(T, TimeSeriesArray(NoPath))

ActivationsOnce ==
    Fresh /\ \E threshold \in (-1)..ActMaxPower : Activations("T", threshold)

NextAct == ActivationsOnce

SpecAct == InitAct /\ [][NextAct]_vars

\* The setter: T.powers = power_array, for arrays of every length.
InitSet ==
    \E T \in IndexedSeries(1, SetMaxLen, SetMaxPower) :
        InitWith(T, TimeSeriesArray(NoPath))

SetPowersOnce ==
    Fresh /\ \E p \in SeqsOf(0..SetMaxPower, 0, SetMaxLen + 1) : SetPowers("T", p)

NextSet == SetPowersOnce

SpecSet == InitSet /\ [][NextSet]_vars

(***************************************************************************)
(* What the statements below are written in.                               *)
(***************************************************************************)
Range(f) == {f[i] : i \in DOMAIN f}
TimeSet(a) == Range(times(a))
NonDecreasing(f) == \A i \in DOMAIN f : \A j \in DOMAIN f : i < j => f[i] <= f[j]
Increasing(f) == \A i \in DOMAIN f : \A j \in DOMAIN f : i < j => f[i] < f[j]
UniqueTimes(a) == Cardinality(TimeSet(a)) = Len(a.recs)

\* The records of recs whose time is in S, in the order of recs.
KeepTimes(recs, S) == LET Kept(r) == r.time \in S IN SelectSeq(recs, Kept)

\* The power of the record of a taken at time t.
PowerAt(a, t) == a.recs[CHOOSE i \in 1..Len(a.recs) : a.recs[i].time = t].power

(***************************************************************************)
(* C1.  Sortedness: in every state of the session, whatever calls were     *)
(* made (construction from a file, intersect, pad, the powers setter, sums *)
(* and differences), the times of every series are non-decreasing.         *)
(***************************************************************************)
C1_TimesNonDecreasing == \A o \in Objects : NonDecreasing(times(Contents(o)))

\* T was padded to MaxTime + 1 samples, and then U was subtracted from it.
C1_Witness ==
    /\ ret.op = "sub" /\ ret.status = "ok" /\ ret.obj = "T" /\ ret.other = "U"
    /\ Len(Contents("T").recs) = MaxTime + 1
    /\ Len(Contents("U").recs) = MaxTime + 1

(***************************************************************************)
(* C2.  For a non-empty series and any threshold, activations returns, in  *)
(* ascending order, exactly the maximal runs of consecutive indices whose  *)
(* power exceeds the threshold (strictly), each as a half-open interval    *)
(* <<start, end>>: all of start..end-1 are on, start-1 and end (if they    *)
(* exist) are off; none when no sample is on.                              *)
(***************************************************************************)
On(a, threshold, i) == a.recs[i + 1].power > threshold

MaximalRuns(a, threshold) ==
    LET n == Len(a.recs)
    IN  {run \in (0..n) \X (0..n) :
            /\ run[1] < run[2]
            /\ \A i \in run[1]..(run[2] - 1) : On(a, threshold, i)
            /\ run[1] = 0 \/ ~On(a, threshold, run[1] - 1)
            /\ run[2] = n \/ ~On(a, threshold, run[2])}

C2_ActivationsAreMaximalRuns ==
    (ret.op = "activations" /\ Len(Contents(ret.obj).recs) > 0) =>
        /\ ret.status = "ok"
        /\ Range(ret.value) = MaximalRuns(Contents(ret.obj), ret.num)
        /\ \A i \in 1..(Len(ret.value) - 1) : ret.value[i][2] < ret.value[i + 1][1]

\* The indicator sequence [F,F,T,T,F,T,F,F,T].
C2_Witness ==
    /\ ret.op = "activations" /\ ret.num = 0
    /\ powers(Contents("T")) = <<0, 0, 1, 1, 0, 1, 0, 0, 1>>
    /\ ret.value = << <<2, 4>>, <<5, 6>>, <<8, 9>> >>

(***************************************************************************)
(* C3.  activations on a series with no samples (such as T after           *)
(* T.intersect(U) when T and U share no timestamp) returns the empty list: *)
(* the call does not fail.                                                 *)
(***************************************************************************)
C3_EmptyActivationsReturnEmpty ==
    (ret.op = "activations" /\ Len(Contents(ret.obj).recs) = 0) =>
        (ret.status = "ok" /\ ret.value = <<>>)

(***************************************************************************)
(* C4.  For T and U with unique timestamps, T.intersect(U) leaves in T     *)
(* exactly the samples of T whose time occurs in U, unchanged and in their *)
(* order: as many as there are common timestamps; U is left as it was.     *)
(***************************************************************************)
C4_IntersectKeepsCommon ==
    [][(ret'.op = "intersect" /\ ret'.obj = "T" /\ ret'.other = "U"
            /\ UniqueTimes(Contents("T")) /\ UniqueTimes(Contents("U"))) =>
        /\ ret'.status = "ok"
        /\ After("T").recs = KeepTimes(Contents("T").recs, TimeSet(Contents("U")))
        /\ Len(After("T").recs)
              = Cardinality(TimeSet(Contents("T")) \cap TimeSet(Contents("U")))
        /\ TimeSet(After("T")) \subseteq
              (TimeSet(Contents("T")) \cap TimeSet(Contents("U")))
        /\ After("U") = Contents("U")]_vars

\* T kept some samples and lost some.
C4_Witness ==
    /\ ret.op = "intersect" /\ ret.obj = "T" /\ ret.other = "U"
    /\ ret.num = 3
    /\ times(Contents("T")) = <<0, 2>>
    /\ times(Contents("U")) = <<0, 2>>

(***************************************************************************)
(* C5.  For sorted T and U with unique timestamps, T + U (T - U) has the   *)
(* timestamps T and U share, in T's order; the two filtered sequences have *)
(* the same timestamps index by index; the power at each shared timestamp  *)
(* is T's power plus (minus) U's; with no shared timestamp the result is   *)
(* empty.                                                                  *)
(***************************************************************************)
C5_SumOverSharedTimes ==
    [][(ret'.op \in {"add", "sub"} /\ ret'.obj = "T" /\ ret'.other = "U"
            /\ UniqueTimes(Contents("T")) /\ UniqueTimes(Contents("U"))) =>
        LET T == Contents("T")
            U == Contents("U")
            R == After(ret'.dst)
            shared == TimeSet(T) \cap TimeSet(U)
            sign == IF ret'.op = "add" THEN 1 ELSE -1
        IN  /\ ret'.status = "ok"
            /\ R.nd = 1
            /\ times(R) = times(Array1(KeepTimes(T.recs, shared)))
            /\ times(Array1(KeepTimes(T.recs, shared)))
                  = times(Array1(KeepTimes(U.recs, shared)))
            /\ \A i \in 1..Len(R.recs) :
                  R.recs[i].power
                    = PowerAt(T, R.recs[i].time) + sign * PowerAt(U, R.recs[i].time)
            /\ shared = {} => R.recs = <<>>]_vars

\* T has three samples and shares two of them with U; both sums are maximal.
C5_Witness ==
    /\ ret.op = "add" /\ ret.obj = "T" /\ ret.other = "U" /\ ret.dst = "R"
    /\ Len(Contents("T").recs) = AlignMaxTime + 1
    /\ Len(Contents("U").recs) = AlignMaxTime
    /\ powers(Contents("R")) = [i \in 1..AlignMaxTime |-> 2 * AlignMaxPower]

(***************************************************************************)
(* C6.  Sums and differences are pure: computing x + y or x - y changes    *)
(* neither x nor y, and a later change of the returned series (the powers  *)
(* setter, intersect, pad) changes neither T nor U.                        *)
(***************************************************************************)
C6_OperandsUntouched ==
    [][/\ ret'.op \in {"add", "sub"} =>
            \A o \in {ret'.obj, ret'.other} \ {ret'.dst} : After(o) = Contents(o)
       /\ (ret'.op \in {"set", "intersect", "pad"} /\ ret'.obj = "R") =>
            \A o \in {"T", "U"} : After(o) = Contents(o)]_vars

\* The sum of T and U was returned and its powers then set to 0.
C6_Witness ==
    /\ ret.op = "set" /\ ret.obj = "R" /\ ret.status = "ok"
    /\ Len(Contents("R").recs) = AlignMaxTime + 1
    /\ \A i \in 1..(AlignMaxTime + 1) :
          /\ Contents("R").recs[i].power = 0
          /\ Contents("T").recs[i].power = AlignMaxPower
          /\ Contents("U").recs[i].power = AlignMaxPower

(***************************************************************************)
(* C7.  For T and U with the same (unique, sorted) timestamps, (T + U) - U *)
(* has the timestamps of T and, index by index, the powers of T.           *)
(***************************************************************************)
C7_AddThenSubIsIdentity ==
    (ret.op = "sub" /\ ret.obj = "R" /\ ret.other = "U"
        /\ times(Contents("T")) = times(Contents("U"))) =>
        /\ ret.status = "ok"
        /\ times(Contents("R")) = times(Contents("T"))
        /\ powers(Contents("R")) = powers(Contents("T"))

C7_Witness ==
    /\ ret.op = "sub" /\ ret.obj = "R" /\ ret.other = "U"
    /\ times(Contents("T")) = times(Contents("U"))
    /\ Len(Contents("T").recs) = AlignMaxTime + 1
    /\ \A i \in 1..(AlignMaxTime + 1) : Contents("U").recs[i].power = AlignMaxPower
    /\ powers(Contents("R")) = powers(Contents("T"))

(***************************************************************************)
(* C8.  For a series of at least one sample with strictly increasing       *)
(* times, pad(maxGap) leaves exactly: every original sample and, for each  *)
(* pair of consecutive samples at most maxGap apart, one sample with the   *)
(* left sample's power at every integer time strictly between them; pairs  *)
(* further apart get nothing; the last original sample is the last sample. *)
(***************************************************************************)
Padded(recs, maxGap) ==
    Range(recs) \cup
    UNION {IF recs[i + 1].time - recs[i].time <= maxGap
           THEN {Sample(t, recs[i].power) : t \in (recs[i].time + 1)..(recs[i + 1].time - 1)}
           ELSE {} : i \in 1..(Len(recs) - 1)}

C8_PadFillsShortGaps ==
    [][(ret'.op = "pad" /\ ret'.obj = "T" /\ Len(Contents("T").recs) > 0
            /\ Increasing(times(Contents("T")))) =>
        LET old == Contents("T").recs
            new == After("T").recs
        IN  /\ ret'.status = "ok"
            /\ Range(new) = Padded(old, ret'.num)
            /\ Len(new) = Cardinality(Padded(old, ret'.num))
            /\ Increasing(times(After("T")))
            /\ new[Len(new)] = old[Len(old)]]_vars

\* The gap from 0 to 2 is filled, the gap from 2 to 5 is not.
C8_Witness ==
    /\ ret.op = "pad" /\ ret.num = 2 /\ ret.status = "ok"
    /\ times(Contents("T")) = <<0, 1, 2, 5>>
    /\ powers(Contents("T")) = <<1, 1, 0, 1>>

(***************************************************************************)
(* C9.  The powers setter with an array whose length differs from the      *)
(* number of samples fails and leaves times and powers as they were; with  *)
(* an array of the same length it replaces the powers index for index and  *)
(* changes neither the times nor the number of samples.                    *)
(***************************************************************************)
C9_SetPowersChecksLength ==
    [][ret'.op = "set" =>
        IF Len(ret'.seq) # Len(Contents(ret'.obj).recs)
        THEN /\ ret'.status # "ok"
             /\ After(ret'.obj) = Contents(ret'.obj)
        ELSE /\ ret'.status = "ok"
             /\ powers(After(ret'.obj)) = ret'.seq
             /\ times(After(ret'.obj)) = times(Contents(ret'.obj))]_vars

(***************************************************************************)
(* C10.  A series constructed without a path has no samples: its times and *)
(* powers are empty.                                                       *)
(***************************************************************************)
C10_EmptyHasNoSamples ==
    (ret.op = "init" /\ ret.num = 0) =>
        /\ times(Contents(ret.obj)) = <<>>
        /\ powers(Contents(ret.obj)) = <<>>

====
